---- MODULE Spec2Model ----
(***************************************************************************)
(* Model of python_ai_backend_example.py: the FastAPI proctoring backend.  *)
(*                                                                         *)
(* State: the process-wide face_mesh instance (created with                *)
(* static_image_mode=False, so it carries tracking state from one          *)
(* process() call to the next), the asyncio event loop (which coroutine    *)
(* currently runs) and the table of requests with their locals and         *)
(* responses.  face_detection carries no state between calls.              *)
(*                                                                         *)
(* Numbers.  Audio samples and landmark coordinates are floats in the      *)
(* code; here a sample a stands for a/AmpDen and a coordinate c for        *)
(* c/Scale, and every comparison of the code is done exactly on these      *)
(* fractions (cross-multiplied), so a threshold met exactly is told apart  *)
(* from one exceeded.  Confidences are kept in tenths.                     *)
(*                                                                         *)
(* Libraries.  What the detectors and the FFT return for given pixels or   *)
(* samples is an attribute of the input (faces, mesh, peaks): the code     *)
(* under study only consumes their outputs.                                *)
(***************************************************************************)
EXTENDS Integers, Sequences, FiniteSets, TLC

\* ---------------------------------------------------------------- bounds
MaxReqs == 2          \* requests the server receives in one run
MaxFaces == 2         \* most faces face_detection reports on the modelled frames
FrameWidth == 650     \* width of the modelled decoded frames, in pixels
FrameHeight == 485    \* height of the modelled decoded frames, in pixels

\* ------------------------------------------------------ program constants
MaxNumFaces == 2      \* face_mesh max_num_faces
LevelFactor == 100    \* audio_level = mean(|x|) * 100
AudioThreshold == 10  \* has_audio = audio_level > 10
PeakLimit == 5        \* multiple_speakers = len(peaks) > 5 and has_audio
TailLen == 100        \* audio_array[-100:] / audio_array[:-100]
SpikeRatio == 2       \* recent_avg > previous_avg * 2
DevNum == 1           \* gaze threshold 0.1 = DevNum / DevDen
DevDen == 10
FaceConfidence == 8   \* 0.8, in tenths
AudioConfidence == 7  \* 0.7, in tenths
NoConfidence == 0     \* 0.0, in tenths
StatusOk == 200
StatusInvalid == 400
StatusError == 500

\* ---------------------------------------------------- number representation
AmpDen == 100         \* a float32 sample is the fraction a / AmpDen
Scale == 20           \* a normalised landmark coordinate is the fraction c / Scale

Abs(x) == IF x < 0 THEN 0 - x ELSE x

\* int(): truncation toward zero of the fraction n / d (d > 0)
Trunc(n, d) == IF n >= 0 THEN n \div d ELSE 0 - ((0 - n) \div d)

ReqIds == 1..MaxReqs

\* ------------------------------------------------------------- audio inputs
\* A buffer of h samples of amplitude a followed by t samples of amplitude b.
Buf(h, a, t, b) == [i \in 1..(h + t) |-> IF i <= h THEN a ELSE b]

Amps == {0, 1, 5, 10, 15, 50, -50}
HeadLens == {0, 1, 50, TailLen, 900}
TailLens == {0, 1, TailLen}
PeakCounts == {0, PeakLimit, PeakLimit + 1}

Buffers == {Buf(h, a, t, b) : h \in HeadLens, a \in Amps, t \in TailLens, b \in Amps}

\* The `audio` form field: base64 text.  b64ok: the text has correct base64
\* padding; extra: bytes left over after the last whole 4-byte float32;
\* samples: the float32 values of the whole 4-byte groups; peaks: the number
\* of FFT bins whose magnitude exceeds twice the mean magnitude.
AudioText(ok, x, s, p) == [b64ok |-> ok, extra |-> x, samples |-> s, peaks |-> p]

AudioInputs ==
    {AudioText(TRUE, 0, s, p) : s \in Buffers, p \in PeakCounts}
    \cup {AudioText(FALSE, 0, s, 0) : s \in {<<>>, Buf(0, 0, 1, 50)}}
    \cup {AudioText(TRUE, x, s, 0) : x \in 1..3, s \in {<<>>, Buf(0, 0, 1, 50)}}

\* ------------------------------------------------------------ analyze_audio
\* The envelope of every response: the HTTP status, the success flag, the
\* error text ("" when there is none) and the analysis (a sequence holding
\* the analysis record, empty when the response carries none).
Response(st, ok, err, an) == [status |-> st, success |-> ok, error |-> err, analysis |-> an]

\* JSONResponse(status_code=500, content={"success": False, "error": str(e)})
ExceptionResponse == Response(StatusError, FALSE, "exception", <<>>)

\* sum of |s[i]| for i in lo..hi
RECURSIVE SumAbs(_, _, _)
SumAbs(s, lo, hi) ==
    IF lo > hi THEN 0
    ELSE IF lo = hi THEN Abs(s[lo])
    ELSE LET mid == (lo + hi) \div 2
         IN  SumAbs(s, lo, mid) + SumAbs(s, mid + 1, hi)

\* base64.b64decode(audio) then np.frombuffer(audio_data, dtype=np.float32):
\* binascii.Error on incorrect padding, ValueError when the byte length is
\* not a multiple of the 4-byte element size; otherwise the array.
DecodeAudio(a) ==
    IF ~a.b64ok THEN [raised |-> TRUE, array |-> <<>>]
    ELSE IF a.extra # 0 THEN [raised |-> TRUE, array |-> <<>>]
    ELSE [raised |-> FALSE, array |-> a.samples]

\* audio_level = np.abs(audio_array).mean() * 100, as the fraction num / den
AudioLevel(arr) == [num |-> SumAbs(arr, 1, Len(arr)) * LevelFactor, den |-> Len(arr) * AmpDen]


\* a variant of HasAudio: the level of the loudest sample, not the mean
HasAudioPeak(arr) ==
    \E i \in 1..Len(arr) : Abs(arr[i]) * LevelFactor > AudioThreshold * AmpDen

\* a variant of HasAudio: audio_level >= 10
HasAudioAtLeast(arr) == AudioLevel(arr).num >= AudioThreshold * AudioLevel(arr).den

\* has_audio = audio_level > 10
HasAudio(arr) == AudioLevel(arr).num > AudioThreshold * AudioLevel(arr).den

\* multiple_speakers = len(peaks) > 5 and has_audio
MultipleSpeakers(peaks, arr) == peaks > PeakLimit /\ HasAudio(arr)

\* recent_avg > previous_avg * 2, for len(audio_array) > 100:
\*   recent_avg   = np.abs(audio_array[-100:]).mean()
\*   previous_avg = np.abs(audio_array[:-100]).mean()
SpikeInTail(arr) ==
    LET n == Len(arr)
        recent == SumAbs(arr, n - TailLen + 1, n)
        previous == SumAbs(arr, 1, n - TailLen)
    IN  recent * (n - TailLen) > SpikeRatio * previous * TailLen

\* suspicious_pattern: False unless has_audio, the buffer is longer than 100
\* samples and the tail spikes
SuspiciousPattern(arr) ==
    HasAudio(arr) /\ Len(arr) > TailLen /\ SpikeInTail(arr)

\* confidence = 0.7 if has_audio else 0.0
AudioConfidenceOf(arr) == IF HasAudio(arr) THEN AudioConfidence ELSE NoConfidence

\* The whole handler body of analyze_audio for the form field a.
analyze_audio(a) ==
    LET d == DecodeAudio(a)
    IN  IF d.raised THEN ExceptionResponse
        ELSE IF Len(d.array) = 0
             THEN Response(StatusInvalid, FALSE, "Invalid audio data", <<>>)
        ELSE Response(StatusOk, TRUE, "",
                 << [hasAudio |-> HasAudio(d.array),
                     audioLevel |-> AudioLevel(d.array),
                     multipleSpeakers |-> MultipleSpeakers(a.peaks, d.array),
                     suspiciousPattern |-> SuspiciousPattern(d.array),
                     confidence |-> AudioConfidenceOf(d.array)] >>)

\* ------------------------------------------------------------- image inputs
Point(x, y) == <<x, y>>

\* The three landmarks analyze_face reads of a face: landmark[1] (nose tip),
\* landmark[33] (left eye) and landmark[263] (right eye).
LandmarkSet(n, l, r) == [nose_tip |-> n, left_eye |-> l, right_eye |-> r]

\* Faces with the eye midpoint on the nose axis, at exactly the threshold
\* distance from it, and beyond it, horizontally and vertically.
LandmarkSets ==
    { LandmarkSet(Point(10, 10), Point(8, 9), Point(12, 9)),
      LandmarkSet(Point(10, 10), Point(8, 8), Point(16, 8)),
      LandmarkSet(Point(10, 10), Point(9, 9), Point(16, 9)),
      LandmarkSet(Point(10, 10), Point(8, 7), Point(12, 8)),
      LandmarkSet(Point(5, 12), Point(4, 10), Point(6, 10)),
      LandmarkSet(Point(5, 12), Point(1, 12), Point(6, 12)) }

\* results_mesh.multi_face_landmarks: at most max_num_faces landmark sets
\* (None in the code is the empty sequence here)
LandmarkLists ==
    UNION { [1..n -> LandmarkSets] : n \in 0..MaxNumFaces }

\* The bytes of the image: empty, bytes no image decoder accepts, or an
\* encoded picture.  Of a picture: its size, the number of faces
\* face_detection finds on it and the landmark sets face_mesh finds on it
\* when it runs its own detection from scratch.
EmptyBytes == [kind |-> "empty", faces |-> 0, mesh |-> <<>>, w |-> 0, h |-> 0]
GarbageBytes == [kind |-> "garbage", faces |-> 0, mesh |-> <<>>, w |-> 0, h |-> 0]
Picture(f, m) == [kind |-> "image", faces |-> f, mesh |-> m, w |-> FrameWidth, h |-> FrameHeight]

Pictures == {Picture(f, m) : f \in 0..MaxFaces, m \in LandmarkLists}

\* One comma-free piece of the `image` form field, read as base64 text.
Segment(ok, b) == [b64ok |-> ok, bytes |-> b]
Header == Segment(FALSE, GarbageBytes)       \* "data:image/jpeg;base64"

\* The `image` form field as image.split(',') sees it.
ImageInputs ==
    {<<Segment(TRUE, b)>> : b \in Pictures \cup {EmptyBytes, GarbageBytes}}
    \cup {<<Header, Segment(TRUE, b)>> : b \in {EmptyBytes, GarbageBytes, Picture(1, <<>>)}}
    \cup {<<Segment(FALSE, b)>> : b \in {EmptyBytes, Picture(1, <<>>)}}
    \cup {<<Header, Segment(FALSE, Picture(1, <<>>))>>,
          <<Header, Segment(TRUE, Picture(0, <<>>)), Segment(TRUE, Picture(1, <<>>))>>,
          <<Segment(TRUE, Picture(1, <<>>)), Segment(FALSE, GarbageBytes)>>}

\* ------------------------------------------------------------- analyze_face
\* image.split(',')[1] if ',' in image else image
Payload(image) == IF Len(image) > 1 THEN image[2] ELSE image[1]

\* base64.b64decode, np.frombuffer(image_data, np.uint8), cv2.imdecode:
\* binascii.Error on incorrect padding; cv2.error for an empty buffer
\* (imdecode asserts !buf.empty()); None for bytes that are no image.
DecodeImage(image) ==
    LET seg == Payload(image)
    IN  IF ~seg.b64ok THEN [raised |-> TRUE, img |-> <<>>]
        ELSE IF seg.bytes.kind = "empty" THEN [raised |-> TRUE, img |-> <<>>]
        ELSE IF seg.bytes.kind = "garbage" THEN [raised |-> FALSE, img |-> <<>>]
        ELSE [raised |-> FALSE, img |-> <<seg.bytes>>]

\* face_detection.process(rgb_img): len(results_detection.detections), 0 for None
FacesDetected(img) == img.faces

\* face_mesh.process(rgb_img) with static_image_mode=False: with no face
\* tracked from the previous call, face_mesh runs its own detection on the
\* frame; with faces tracked, it localises landmarks starting from the
\* previous call's faces, so what it returns for this frame depends on that
\* call and is any landmark list here.
MeshOutputs(img, tracked) ==
    IF tracked = 0 THEN {img.mesh} ELSE LandmarkLists

\* deviation_x > 0.1 or deviation_y > 0.1, with
\*   deviation = |(left_eye + right_eye) / 2 - nose_tip| per axis
Exceeds(dev2) == dev2 * DevDen > 2 * DevNum * Scale

LookingAway(lm) ==
    \/ Exceeds(Abs(lm.left_eye[1] + lm.right_eye[1] - 2 * lm.nose_tip[1]))
    \/ Exceeds(Abs(lm.left_eye[2] + lm.right_eye[2] - 2 * lm.nose_tip[2]))


\* a variant of FirstFace: multi_face_landmarks[-1]
LastFace(landmarks) == landmarks[Len(landmarks)]

\* face_landmarks = results_mesh.multi_face_landmarks[0]
FirstFace(landmarks) == landmarks[1]

\* {"x": int(nose_tip.x * w), "y": int(nose_tip.y * h)}
FacePosition(lm, img) ==
    <<Trunc(lm.nose_tip[1] * img.w, Scale), Trunc(lm.nose_tip[2] * img.h, Scale)>>

\* confidence = 0.8 if faces_detected > 0 else 0.0
FaceConfidenceOf(faces) == IF faces > 0 THEN FaceConfidence ELSE NoConfidence


\* a variant of MultipleFaces: faces_detected >= 1
SomeFaces(faces) == faces >= 1

\* multiple_faces = faces_detected > 1
MultipleFaces(faces) == faces > 1

\* The result built from the two detectors' outputs (lines 90-138).
\* facePosition is a sequence: empty for None, else <<x, y>>.
FaceResult(img, faces, landmarks) ==
    Response(StatusOk, TRUE, "",
        << [facesDetected |-> faces,
            multipleFaces |-> MultipleFaces(faces),
            facePosition |-> IF Len(landmarks) > 0
                             THEN FacePosition(FirstFace(landmarks), img)
                             ELSE <<>>,
            lookingAway |-> Len(landmarks) > 0 /\ LookingAway(FirstFace(landmarks)),
            personLeftSeat |-> FALSE,
            confidence |-> FaceConfidenceOf(faces)] >>)

\* -------------------------------------------------------------------- state
VARIABLES
    face_mesh,   \* the module-level FaceMesh: number of faces it tracks from its last process() call
    running,     \* the request whose coroutine the event loop is running, 0 when the loop is free
    tasks        \* per request: endpoint, form input, position in the handler, locals, response

vars == <<face_mesh, running, tasks>>

\* pc: "idle" (not received), "pending" (received, handler not started),
\* "detect" (in face_detection.process), "mesh" (in face_mesh.process),
\* "reading" (suspended in await video.read() / audio.read()), "done".
\* input and response are sequences: empty, or holding the one value.
\* detections and landmarks are the handler's locals results_detection /
\* results_mesh; they are kept after the handler returns, to state what the
\* response was computed from.
Task(k, in, p, d, lms, resp) ==
    [kind |-> k, input |-> in, pc |-> p, detections |-> d, landmarks |-> lms, response |-> resp]

IdleTask == Task("none", <<>>, "idle", 0, <<>>, <<>>)

\* The requests the server model receives: every endpoint, and of the two
\* analyzers the inputs that take each path through the handler.
ServerImages ==
    { <<Segment(TRUE, Picture(0, <<>>))>>,
      <<Header, Segment(TRUE, Picture(1, <<LandmarkSet(Point(10, 10), Point(8, 9), Point(12, 9))>>))>>,
      <<Segment(TRUE, Picture(2, <<LandmarkSet(Point(10, 10), Point(9, 9), Point(16, 9)),
                                   LandmarkSet(Point(5, 12), Point(4, 10), Point(6, 10))>>))>>,
      <<Segment(TRUE, GarbageBytes)>>,
      <<Segment(FALSE, EmptyBytes)>> }

ServerAudio ==
    { AudioText(TRUE, 0, <<>>, 0),
      AudioText(TRUE, 1, <<>>, 0),
      AudioText(TRUE, 0, Buf(TailLen, 1, TailLen, 50), PeakLimit + 1) }

BlobEndpoints == {"video", "audio_blob"}


\* a variant of MayRun: a plain `def` handler, which FastAPI runs in its
\* thread pool, beside whatever else is running
MayRunInThreadPool(r) == TRUE

\* An `async def` handler runs on the event loop: it starts when the loop is
\* free and, once started, is the only coroutine that runs until it awaits
\* or returns.
MayRun(r) == running \in {0, r}

Release(r) == IF running = r THEN 0 ELSE running

Init ==
    /\ face_mesh = 0
    /\ running = 0
    /\ tasks = [r \in ReqIds |-> IdleTask]

\* A request arrives; its form fields are parsed before the handler runs.
Submit(r) ==
    /\ tasks[r].pc = "idle"
    /\ \A q \in ReqIds : q < r => tasks[q].pc # "idle"
    /\ \/ \E image \in ServerImages :
            tasks' = [tasks EXCEPT ![r] = Task("face", <<image>>, "pending", 0, <<>>, <<>>)]
       \/ \E audio \in ServerAudio :
            tasks' = [tasks EXCEPT ![r] = Task("audio", <<audio>>, "pending", 0, <<>>, <<>>)]
       \/ \E k \in BlobEndpoints :
            tasks' = [tasks EXCEPT ![r] = Task(k, <<>>, "pending", 0, <<>>, <<>>)]
    /\ UNCHANGED <<face_mesh, running>>

\* analyze_audio: no await in the body, so the handler runs from its first
\* line to its return in one step of the loop.
HandleAudio(r) ==
    /\ tasks[r].pc = "pending"
    /\ tasks[r].kind = "audio"
    /\ MayRun(r)
    /\ tasks' = [tasks EXCEPT ![r].pc = "done",
                              ![r].response = <<analyze_audio(tasks[r].input[1])>>]
    /\ running' = Release(r)
    /\ UNCHANGED face_mesh

\* analyze_face, lines 71-87: decode; return 400 / 500, or go on to call
\* face_detection.process.
FaceBegin(r) ==
    /\ tasks[r].pc = "pending"
    /\ tasks[r].kind = "face"
    /\ MayRun(r)
    /\ LET d == DecodeImage(tasks[r].input[1])
       IN  IF d.raised
           THEN /\ tasks' = [tasks EXCEPT ![r].pc = "done",
                                          ![r].response = <<ExceptionResponse>>]
                /\ running' = Release(r)
           ELSE IF Len(d.img) = 0
           THEN /\ tasks' = [tasks EXCEPT ![r].pc = "done",
                                          ![r].response =
                                              <<Response(StatusInvalid, FALSE, "Invalid image data", <<>>)>>]
                /\ running' = Release(r)
           ELSE /\ tasks' = [tasks EXCEPT ![r].pc = "detect"]
                /\ running' = r
    /\ UNCHANGED face_mesh

\* line 87: face_detection.process returns; the handler goes on to call
\* face_mesh.process.
FaceDetect(r) ==
    /\ tasks[r].pc = "detect"
    /\ MayRun(r)
    /\ LET img == DecodeImage(tasks[r].input[1]).img[1]
       IN  tasks' = [tasks EXCEPT ![r].pc = "mesh",
                                  ![r].detections = FacesDetected(img)]
    /\ running' = r
    /\ UNCHANGED face_mesh

\* lines 88-138: face_mesh.process returns, the result is built and returned.
FaceMesh(r) ==
    /\ tasks[r].pc = "mesh"
    /\ MayRun(r)
    /\ LET img == DecodeImage(tasks[r].input[1]).img[1]
       IN  \E out \in MeshOutputs(img, face_mesh) :
              /\ face_mesh' = Len(out)
              /\ tasks' = [tasks EXCEPT ![r].pc = "done",
                                        ![r].landmarks = out,
                                        ![r].response =
                                            <<FaceResult(img, tasks[r].detections, out)>>]
    /\ running' = Release(r)

\* analyze_video / analyze_audio_blob up to `await video.read()`: the
\* coroutine suspends and the loop is free again.
BlobBegin(r) ==
    /\ tasks[r].pc = "pending"
    /\ tasks[r].kind \in BlobEndpoints
    /\ MayRun(r)
    /\ tasks' = [tasks EXCEPT ![r].pc = "reading"]
    /\ running' = Release(r)
    /\ UNCHANGED face_mesh

\* ... and from the await to the return of the stub result.
BlobResume(r) ==
    /\ tasks[r].pc = "reading"
    /\ MayRun(r)
    /\ tasks' = [tasks EXCEPT ![r].pc = "done",
                              ![r].response = <<Response(StatusOk, TRUE, "", <<>>)>>]
    /\ running' = Release(r)
    /\ UNCHANGED face_mesh

Next ==
    \E r \in ReqIds :
        \/ Submit(r)
        \/ HandleAudio(r)
        \/ FaceBegin(r)
        \/ FaceDetect(r)
        \/ FaceMesh(r)
        \/ BlobBegin(r)
        \/ BlobResume(r)

Spec == Init /\ [][Next]_vars

\* ---------------------------------------- the analyzers over all their inputs
\* One analyze_audio call on any audio input.
InitAudio ==
    /\ face_mesh = 0
    /\ running = 0
    /\ \E audio \in AudioInputs :
          tasks = [r \in ReqIds |->
                      IF r = 1 THEN Task("audio", <<audio>>, "pending", 0, <<>>, <<>>)
                      ELSE IdleTask]

NextAudio == \E r \in ReqIds : HandleAudio(r)

SpecAudio == InitAudio /\ [][NextAudio]_vars

\* One analyze_face call on any image input, after any earlier calls on
\* face_mesh (any number of faces tracked).
InitFace ==
    /\ face_mesh \in 0..MaxNumFaces
    /\ running = 0
    /\ \E image \in ImageInputs :
          tasks = [r \in ReqIds |->
                      IF r = 1 THEN Task("face", <<image>>, "pending", 0, <<>>, <<>>)
                      ELSE IdleTask]

NextFace == \E r \in ReqIds : FaceBegin(r) \/ FaceDetect(r) \/ FaceMesh(r)

SpecFace == InitFace /\ [][NextFace]_vars

\* ------------------------------------------------------------------- claims
Done(r) == tasks[r].pc = "done"
Returned(r, k) == Done(r) /\ tasks[r].kind = k
Resp(r) == tasks[r].response[1]
HasResult(r) == Len(Resp(r).analysis) = 1
Analysis(r) == Resp(r).analysis[1]
Samples(r) == tasks[r].input[1].samples

\* C1: two calls of the same analyzer with identical inputs return identical
\* responses, whatever calls were made before or between them.
C1_SameInputSameResult ==
    \A a, b \in ReqIds :
        (/\ Done(a) /\ Done(b)
         /\ tasks[a].kind \in {"face", "audio"}
         /\ tasks[a].kind = tasks[b].kind
         /\ tasks[a].input = tasks[b].input)
        => tasks[a].response = tasks[b].response

\* C2: a frame on which face_detection reports zero faces gives
\* facesDetected=0, multipleFaces=false, confidence=0.0 and no facePosition,
\* whatever face_mesh returned for it.
C2_ZeroFacesNoPosition ==
    \A r \in ReqIds :
        (Returned(r, "face") /\ HasResult(r) /\ tasks[r].detections = 0)
        => /\ Analysis(r).facesDetected = 0
           /\ Analysis(r).multipleFaces = FALSE
           /\ Analysis(r).confidence = NoConfidence
           /\ Analysis(r).facePosition = <<>>

\* The buffer of the scenario: 900 samples of 0.01 then 100 samples of 0.5.
ScenarioBuffer == Buf(900, AmpDen \div 100, 100, AmpDen \div 2)
IsScenario(r) ==
    /\ Returned(r, "audio")
    /\ tasks[r].input[1].b64ok /\ tasks[r].input[1].extra = 0
    /\ Samples(r) = ScenarioBuffer

\* C3 as stated: on the scenario buffer analyze_audio returns hasAudio=true
\* and suspiciousPattern=true.
C3_ScenarioHasAudio ==
    \A r \in ReqIds :
        IsScenario(r)
        => /\ HasResult(r)
           /\ Analysis(r).hasAudio = TRUE
           /\ Analysis(r).suspiciousPattern = TRUE

\* C3 amended: on the scenario buffer analyze_audio returns audioLevel =
\* mean(|sample|) * 100 = 5.9, which is not above 10, so hasAudio=false,
\* suspiciousPattern=false, multipleSpeakers=false and confidence=0.0.
C3_ScenarioIsQuiet ==
    \A r \in ReqIds :
        IsScenario(r)
        => /\ HasResult(r)
           /\ Analysis(r).audioLevel.num * 10 = 59 * Analysis(r).audioLevel.den
           /\ Analysis(r).hasAudio = FALSE
           /\ Analysis(r).suspiciousPattern = FALSE
           /\ Analysis(r).multipleSpeakers = FALSE
           /\ Analysis(r).confidence = NoConfidence

C3_Witness ==
    \E r \in ReqIds :
        IsScenario(r) /\ tasks[r].input[1].peaks > PeakLimit /\ HasResult(r)

\* C4: a buffer longer than 100 samples whose head (all but the last 100
\* samples) has mean absolute amplitude zero is analysed without an error
\* and reported with suspiciousPattern=false.
C4_ZeroHeadNoSpike ==
    \A r \in ReqIds :
        (/\ Returned(r, "audio")
         /\ tasks[r].input[1].b64ok /\ tasks[r].input[1].extra = 0
         /\ Len(Samples(r)) > TailLen
         /\ \A i \in 1..(Len(Samples(r)) - TailLen) : Samples(r)[i] = 0)
        => /\ HasResult(r)
           /\ Analysis(r).suspiciousPattern = FALSE

\* C5: audio that is empty or not decodable as float32 samples (no bytes,
\* invalid base64, a byte length that is no multiple of 4) is answered with
\* status 400, never 500, and without a result.
C5_UndecodableAudioIs400 ==
    \A r \in ReqIds :
        (/\ Returned(r, "audio")
         /\ \/ ~tasks[r].input[1].b64ok
            \/ tasks[r].input[1].extra # 0
            \/ Len(Samples(r)) = 0)
        => /\ Resp(r).status = StatusInvalid
           /\ ~HasResult(r)

\* C6: an image that is empty or undecodable (invalid base64, no bytes,
\* bytes the decoder rejects) is answered with status 400, never 500,
\* without a result, and the detectors never run on it.
Undecodable(image) ==
    \/ ~Payload(image).b64ok
    \/ Payload(image).bytes.kind \in {"empty", "garbage"}

C6_UndecodableImageIs400 ==
    \A r \in ReqIds :
        (tasks[r].kind = "face" /\ Undecodable(tasks[r].input[1]))
        => /\ tasks[r].pc \notin {"detect", "mesh"}
           /\ Done(r) => (Resp(r).status = StatusInvalid /\ ~HasResult(r))

\* mean(|samples|) * 100 compared with 10, on the samples themselves
MeanTimes100AtMost10(arr) ==
    SumAbs(arr, 1, Len(arr)) * 100 <= 10 * Len(arr) * AmpDen
MeanTimes100Is10(arr) ==
    SumAbs(arr, 1, Len(arr)) * 100 = 10 * Len(arr) * AmpDen

Decodes(r) == tasks[r].input[1].b64ok /\ tasks[r].input[1].extra = 0

\* C7: a non-empty buffer with mean(|samples|) * 100 <= 10 (10 included)
\* gives hasAudio=false, multipleSpeakers=false, suspiciousPattern=false and
\* confidence=0.0; and in every result confidence is 0.7 iff hasAudio, else
\* 0.0, and multipleSpeakers and suspiciousPattern are true only with
\* hasAudio, however many peak bins there are and whatever the tail is.
C7_QuietBufferNoSignals ==
    \A r \in ReqIds :
        Returned(r, "audio")
        => /\ (Decodes(r) /\ Len(Samples(r)) > 0 /\ MeanTimes100AtMost10(Samples(r)))
              => /\ HasResult(r)
                 /\ Analysis(r).hasAudio = FALSE
                 /\ Analysis(r).multipleSpeakers = FALSE
                 /\ Analysis(r).suspiciousPattern = FALSE
                 /\ Analysis(r).confidence = NoConfidence
           /\ HasResult(r)
              => /\ Analysis(r).confidence = AudioConfidence <=> Analysis(r).hasAudio
                 /\ ~Analysis(r).hasAudio => Analysis(r).confidence = NoConfidence
                 /\ Analysis(r).multipleSpeakers => Analysis(r).hasAudio
                 /\ Analysis(r).suspiciousPattern => Analysis(r).hasAudio

\* a level of exactly 10 with more than 5 peak bins and a tail more than
\* twice as loud as the head has been analysed
C7_Witness ==
    \E r \in ReqIds :
        /\ Returned(r, "audio") /\ Decodes(r) /\ HasResult(r)
        /\ MeanTimes100Is10(Samples(r))
        /\ tasks[r].input[1].peaks > PeakLimit
        /\ Len(Samples(r)) > TailLen
        /\ SumAbs(Samples(r), Len(Samples(r)) - TailLen + 1, Len(Samples(r)))
             * (Len(Samples(r)) - TailLen)
           > 2 * SumAbs(Samples(r), 1, Len(Samples(r)) - TailLen) * TailLen

\* |midpoint(leftEye, rightEye) - nose| > 0.1 on either axis, in tenths
DeviatesBeyondTenth(lm) ==
    \/ 10 * Abs(lm.left_eye[1] + lm.right_eye[1] - 2 * lm.nose_tip[1]) > 2 * Scale
    \/ 10 * Abs(lm.left_eye[2] + lm.right_eye[2] - 2 * lm.nose_tip[2]) > 2 * Scale
DeviatesExactlyTenth(lm) ==
    /\ 10 * Abs(lm.left_eye[1] + lm.right_eye[1] - 2 * lm.nose_tip[1]) = 2 * Scale
    /\ 10 * Abs(lm.left_eye[2] + lm.right_eye[2] - 2 * lm.nose_tip[2]) = 2 * Scale

\* C8: with at least one landmark set, lookingAway is true iff the eye
\* midpoint of the FIRST set deviates from its nose tip by more than 0.1 on
\* an axis (exactly 0.1 or less on both gives false), whatever the second
\* face's landmarks; with no landmark set, lookingAway is false.
C8_LookingAwayFromFirstFace ==
    \A r \in ReqIds :
        (Returned(r, "face") /\ HasResult(r))
        => /\ Len(tasks[r].landmarks) > 0
              => (Analysis(r).lookingAway <=> DeviatesBeyondTenth(tasks[r].landmarks[1]))
           /\ Len(tasks[r].landmarks) = 0 => Analysis(r).lookingAway = FALSE

\* a frame was analysed whose first face deviates by exactly 0.1 on both
\* axes and whose second face deviates by more
C8_Witness ==
    \E r \in ReqIds :
        /\ Returned(r, "face") /\ HasResult(r)
        /\ Len(tasks[r].landmarks) = 2
        /\ DeviatesExactlyTenth(tasks[r].landmarks[1])
        /\ DeviatesBeyondTenth(tasks[r].landmarks[2])
        /\ Analysis(r).lookingAway = FALSE

\* C9: every result of analyze_face has multipleFaces = (facesDetected > 1),
\* confidence 0.8 iff facesDetected > 0 and else 0.0, a facePosition iff
\* face_mesh returned at least one landmark set, and personLeftSeat false.
C9_FaceResultInvariant ==
    \A r \in ReqIds :
        (Returned(r, "face") /\ HasResult(r))
        => /\ Analysis(r).multipleFaces <=> Analysis(r).facesDetected > 1
           /\ Analysis(r).confidence = FaceConfidence <=> Analysis(r).facesDetected > 0
           /\ Analysis(r).facesDetected = 0 => Analysis(r).confidence = NoConfidence
           /\ Analysis(r).facePosition # <<>> <=> Len(tasks[r].landmarks) > 0
           /\ Analysis(r).personLeftSeat = FALSE

\* several faces detected while face_mesh returned no landmark set
C9_Witness ==
    \E r \in ReqIds :
        /\ Returned(r, "face") /\ HasResult(r)
        /\ Analysis(r).facesDetected > 1
        /\ Analysis(r).multipleFaces = TRUE
        /\ Analysis(r).confidence = FaceConfidence
        /\ Len(tasks[r].landmarks) = 0
        /\ Analysis(r).facePosition = <<>>

InDetector(r) == tasks[r].pc \in {"detect", "mesh"}

\* C10: no two requests are inside face_detection.process / face_mesh.process
\* at the same time: a request inside one holds the event loop until its
\* handler returns.
C10_DetectorsSerialized ==
    \A r \in ReqIds :
        InDetector(r)
        => /\ running = r
           /\ \A q \in ReqIds : InDetector(q) => q = r

\* a request is inside face_mesh.process while another analyze_face request
\* has been received and waits for the loop
C10_Witness ==
    \E r, q \in ReqIds :
        /\ tasks[r].pc = "mesh"
        /\ q # r
        /\ tasks[q].pc = "pending" /\ tasks[q].kind = "face"
        /\ ~Undecodable(tasks[q].input[1])

====
